---- MODULE Spec2Model ----
(***************************************************************************)
(* Portfolio tracker: the persistence gateway (DatabasePersistence) over   *)
(* the tables users.users, accounts, assets, holdings and the view         *)
(* views.base_holdings, and the Flask request handlers of app.py.          *)
(*                                                                         *)
(* Text values are sequences of one-character strings, so that length and  *)
(* character classes are computed, not assumed.  A nullable SQL value is   *)
(* <<>> for NULL and <<v>> for the value v.                                *)
(***************************************************************************)
EXTENDS Integers, Sequences, FiniteSets, TLC

VARIABLES
    users,        \* table users.users: rows [id, username, password_hash]
    accounts,     \* table accounts: rows [id, account_name, account_type, user_id]
    assets,       \* table assets: rows [id, ticker, name, category, current_price, user_id]
    holdings,     \* table holdings: rows [id, asset_id, account_id, shares, user_id]
    seqs,         \* last value handed out by each serial sequence
    initialized,  \* DatabasePersistence._initialized
    last,         \* history: the last gateway call and how it ended
    session,      \* Flask session: {} or {username}
    resp,         \* history: the last HTTP request and its response
    boot          \* the schema objects of the database, and the worker processes
                  \* that run _setup_schema at their first construction

vars == <<users, accounts, assets, holdings, seqs, initialized, last, session, resp, boot>>

db == <<users, accounts, assets, holdings, seqs>>

-----------------------------------------------------------------------------
(* Bounds of the model *)

\* the serial sequences stop handing out ids at these values
MaxUserSeq == 2
MaxAccountSeq == 2
MaxAssetSeq == 1
MaxHoldingSeq == 2
\* longest username candidate enumerated
MaxNameLen == 2

\* user_id None of a gateway constructed without a user (serial ids start at 1)
NoUser == 0

NULL == <<>>
Val(v) == <<v>>

\* the ids a gateway may be bound to: None, and any integer
GatewayIds == 0 .. MaxUserSeq

Alphabet == {"a", "1", "!"}
AlnumChars == {"a", "1"}
Digits == {"0", "1", "2", "3", "4", "5", "6", "7", "8", "9"}

\* all texts over Alphabet of length 0..MaxNameLen
Candidates == UNION {[1 .. n -> Alphabet] : n \in 0 .. MaxNameLen}

UserAA == <<"a", "a">>
UserA1 == <<"a", "1">>
PwGood == <<"a", "a", "a", "a", "a", "a", "a", "1">>
PwOther == <<"1", "a", "a", "a", "a", "a", "a", "a", "a">>
PwNoDigit == <<"a", "a", "a", "a", "a", "a", "a", "a">>
PwShort == <<"a", "a", "1">>
PwSeven == <<"a", "a", "a", "a", "a", "a", "1">>

Salts == {"s1", "s2"}
AccountNames == {<<"a">>}
AccountTypes == {<<"a">>}
Tickers == {<<"a">>}
\* current_price NUMERIC(10, 2), counted in cents
Prices == {0, 1}
Shares == {1, 2}

-----------------------------------------------------------------------------
(* werkzeug.security *)

\* generate_password_hash draws a fresh salt and stores method, salt and digest
generate_password_hash(password, salt) ==
    [method |-> "pbkdf2", salt |-> salt, digest |-> <<salt, password>>]

\* check_password_hash recomputes the digest of the candidate under the stored salt
check_password_hash(pwhash, password) ==
    pwhash.digest = <<pwhash.salt, password>>

-----------------------------------------------------------------------------
(* Python values whose type decides a comparison *)

Str(s) == [type |-> "str", v |-> s]
Dict(f) == [type |-> "dict", v |-> f]

\* a == b: values of different types are never equal
PyEq(a, b) == a.type = b.type /\ a.v = b.v

\* x in t, for a tuple or list t
PyIn(x, t) == \E i \in DOMAIN t : PyEq(x, t[i])

-----------------------------------------------------------------------------
(* Reads of the gateway *)

RECURSIVE RowsById(_)
\* the rows of a table as a list, in primary-key order
RowsById(S) ==
    IF S = {} THEN <<>>
    ELSE LET r == CHOOSE x \in S : \A y \in S : x.id <= y.id
         IN <<r>> \o RowsById(S \ {r})

\* SELECT username FROM users.users
all_users ==
    LET rows == RowsById(users)
    IN [i \in 1 .. Len(rows) |-> rows[i].username]

\* SELECT * FROM users.users, returned as the tuple (credentials, user_ids) of
\* two dicts keyed by username
load_user_credentials ==
    <<Dict([name \in {u.username : u \in users} |->
               (CHOOSE u \in users : u.username = name).password_hash]),
      Dict([name \in {u.username : u \in users} |->
               (CHOOSE u \in users : u.username = name).id])>>

\* SELECT * FROM accounts WHERE user_id = %s
all_accounts(uid) == {a \in accounts : a.user_id = uid}

\* SELECT * FROM assets WHERE user_id = %s
all_assets(uid) == {a \in assets : a.user_id = uid}

\* SELECT * FROM assets WHERE id = %s
find_asset(asset_id) == {a \in assets : a.id = asset_id}

-----------------------------------------------------------------------------
(* views.base_holdings *)

\* the market value with + written for *
Product_sum(price, shares) ==
    IF price = NULL \/ shares = NULL THEN NULL ELSE Val(price[1] + shares[1])

\* assets.current_price * holdings.shares, NULL when either side is NULL
Product(price, shares) ==
    IF price = NULL \/ shares = NULL THEN NULL ELSE Val(price[1] * shares[1])

\* the view with JOIN written for LEFT JOIN: accounts without holdings drop out
Joined_inner ==
    UNION {
        UNION {{<<acc, Val(h), Val(a)>> : a \in {x \in assets : x.id = h.asset_id}}
               : h \in {x \in holdings : x.account_id = acc.id}}
        : acc \in accounts}

\* accounts LEFT JOIN holdings ON accounts.id = holdings.account_id
\*          LEFT JOIN assets ON assets.id = holdings.asset_id,
\* as triples of an account row, a holding row or NULL, an asset row or NULL
Joined ==
    UNION {
        LET hs == {h \in holdings : h.account_id = acc.id}
        IN IF hs = {} THEN {<<acc, NULL, NULL>>}
           ELSE UNION {
                    LET ms == {a \in assets : a.id = h.asset_id}
                    IN IF ms = {} THEN {<<acc, Val(h), NULL>>}
                       ELSE {<<acc, Val(h), Val(a)>> : a \in ms}
                    : h \in hs}
        : acc \in accounts}

JoinedPrice(j) == IF j[3] = NULL THEN NULL ELSE Val(j[3][1].current_price)
JoinedShares(j) == IF j[2] = NULL THEN NULL ELSE Val(j[2][1].shares)
JoinedValue(j) == Product(JoinedPrice(j), JoinedShares(j))

RECURSIVE SumValues(_)
\* SUM over a set of joined rows of the non-NULL market values (0 for none)
SumValues(J) ==
    IF J = {} THEN 0
    ELSE LET j == CHOOSE x \in J : TRUE
             v == JoinedValue(j)
         IN (IF v = NULL THEN 0 ELSE v[1]) + SumValues(J \ {j})

\* SUM(assets.current_price * holdings.shares) OVER (): over every row of the
\* view, whichever user it belongs to; NULL when no row has a value
WindowTotal ==
    IF \A j \in Joined : JoinedValue(j) = NULL THEN NULL ELSE Val(SumValues(Joined))

\* CASE WHEN total > 0 THEN market_value / total ELSE 0 END, as the exact
\* fraction <<numerator, denominator>>
Percent(j) ==
    IF WindowTotal # NULL /\ WindowTotal[1] > 0
    THEN (IF JoinedValue(j) = NULL THEN NULL ELSE <<JoinedValue(j)[1], WindowTotal[1]>>)
    ELSE <<0, 1>>

\* one row of the view
ViewRow(j) ==
    [account_name  |-> j[1].account_name,
     account_type  |-> j[1].account_type,
     ticker        |-> IF j[3] = NULL THEN NULL ELSE Val(j[3][1].ticker),
     name          |-> IF j[3] = NULL THEN NULL ELSE Val(j[3][1].name),
     category      |-> IF j[3] = NULL THEN NULL ELSE Val(j[3][1].category),
     current_price |-> JoinedPrice(j),
     shares        |-> JoinedShares(j),
     market_value  |-> JoinedValue(j),
     percent       |-> Percent(j),
     asset_id      |-> IF j[3] = NULL THEN NULL ELSE Val(j[3][1].id),
     account_id    |-> j[1].id,
     holding_id    |-> IF j[2] = NULL THEN NULL ELSE Val(j[2][1].id),
     user_id       |-> j[1].user_id]

base_holdings == {ViewRow(j) : j \in Joined}

\* the query with its WHERE user_id = %s left out
base_holdings_query_unscoped(uid, filter) ==
    IF filter = "has_holdings"
    THEN {r \in base_holdings : r.shares # NULL}
    ELSE base_holdings

\* SELECT * FROM views.base_holdings WHERE user_id = %s [AND shares IS NOT NULL]
base_holdings_query(uid, filter) ==
    IF filter = "has_holdings"
    THEN {r \in base_holdings : r.user_id = uid /\ r.shares # NULL}
    ELSE {r \in base_holdings : r.user_id = uid}

all_holdings(uid) == base_holdings_query(uid, "has_holdings")

\* ... AND holding_id = %s, fetchone(): the row, or no row
find_holding(uid, holding_id) ==
    {r \in base_holdings_query(uid, "has_holdings") : r.holding_id = Val(holding_id)}

\* ... AND account_id = %s
account_holdings(uid, account_id) ==
    {r \in base_holdings_query(uid, "none") : r.account_id = account_id}

RECURSIVE SumField(_, _)
\* SUM(field) over rows, NULLs skipped (0 for none)
SumField(R, field) ==
    IF R = {} THEN 0
    ELSE LET r == CHOOSE x \in R : TRUE
         IN (IF r[field] = NULL THEN 0 ELSE r[field][1]) + SumField(R \ {r}, field)

\* SQL SUM: NULL when every input is NULL
SqlSum(R, field) ==
    IF \A r \in R : r[field] = NULL THEN NULL ELSE Val(SumField(R, field))

\* SUM(percent): the fractions of one view share their denominator
SqlSumPercent(R) ==
    IF \A r \in R : r.percent = NULL THEN NULL
    ELSE LET rs == {r \in R : r.percent # NULL}
             den == (CHOOSE r \in rs : TRUE).percent[2]
         IN <<SumField({[id |-> <<r.account_id, r.holding_id>>, v |-> Val(r.percent[1])] : r \in rs}, "v"), den>>

\* account_totals with COUNT(*) written for COUNT(ticker)
account_totals_countstar(uid) ==
    LET base == base_holdings_query(uid, "none")
        keys == {<<r.account_name, r.account_type, r.account_id>> : r \in base}
    IN {LET g == {r \in base : <<r.account_name, r.account_type, r.account_id>> = k}
        IN [account_name       |-> k[1],
            account_type       |-> k[2],
            account_id         |-> k[3],
            number_holdings    |-> Cardinality(g),
            total_market_value |-> SqlSum(g, "market_value"),
            percent            |-> SqlSumPercent(g)]
        : k \in keys}

\* account_totals: GROUP BY account_name, account_type, account_id over the
\* user's rows of the view (rows without holdings included)
account_totals(uid) ==
    LET base == base_holdings_query(uid, "none")
        keys == {<<r.account_name, r.account_type, r.account_id>> : r \in base}
    IN {LET g == {r \in base : <<r.account_name, r.account_type, r.account_id>> = k}
        IN [account_name       |-> k[1],
            account_type       |-> k[2],
            account_id         |-> k[3],
            number_holdings    |-> Cardinality({r \in g : r.ticker # NULL}),
            total_market_value |-> SqlSum(g, "market_value"),
            percent            |-> SqlSumPercent(g)]
        : k \in keys}

\* assets LEFT JOIN base_query ON assets.id = base_query.asset_id, as pairs of
\* an asset row (of any user) and a row of the user's base query, or NULL
AssetJoin(uid) ==
    UNION {
        LET rs == {r \in base_holdings_query(uid, "none") : r.asset_id = Val(a.id)}
        IN IF rs = {} THEN {<<a, NULL>>} ELSE {<<a, Val(r)>> : r \in rs}
        : a \in assets}

\* asset_totals: the join filtered by WHERE assets.user_id = base_query.user_id
\* (not true of a pair whose base_query side is NULL), then
\* GROUP BY assets.id, assets.ticker, assets.name, assets.category
asset_totals(uid) ==
    LET kept == {p \in AssetJoin(uid) : p[2] # NULL /\ p[1].user_id = p[2][1].user_id}
        keys == {p[1] : p \in kept}
    IN {LET g == {p[2][1] : p \in {q \in kept : q[1] = a}}
        IN [id                 |-> a.id,
            ticker             |-> a.ticker,
            name               |-> a.name,
            category           |-> a.category,
            current_price      |-> a.current_price,
            total_shares       |-> SqlSum(g, "shares"),
            accounts_holding   |-> Cardinality({r.account_id : r \in g}),
            total_market_value |-> SqlSum(g, "market_value"),
            percent            |-> SqlSumPercent(g)]
        : a \in keys}

-----------------------------------------------------------------------------
(* Statements of the gateway, as functions of the tables *)

UserIds == {u.id : u \in users}

\* the INSERT on a table whose username is not UNIQUE
InsertUser_notunique(id, username, password_hash) ==
    users \cup {[id |-> id, username |-> username, password_hash |-> password_hash]}

\* INSERT INTO users.users: username is UNIQUE NOT NULL
InsertUser(id, username, password_hash) ==
    IF \E u \in users : u.username = username
    THEN users
    ELSE users \cup {[id |-> id, username |-> username, password_hash |-> password_hash]}

\* the INSERT with account_type and account_name in each other's place
InsertAccount_swapped(id, account_name, account_type, uid) ==
    IF uid \notin UserIds
    THEN accounts
    ELSE accounts \cup {[id |-> id, account_name |-> account_type,
                         account_type |-> account_name, user_id |-> uid]}

\* INSERT INTO accounts: user_id REFERENCES users.users(id)
InsertAccount(id, account_name, account_type, uid) ==
    IF uid \notin UserIds
    THEN accounts
    ELSE accounts \cup {[id |-> id, account_name |-> account_name,
                         account_type |-> account_type, user_id |-> uid]}

\* INSERT INTO assets: user_id REFERENCES users.users(id)
InsertAsset(id, ticker, name, category, current_price, uid) ==
    IF uid \notin UserIds
    THEN assets
    ELSE assets \cup {[id |-> id, ticker |-> ticker, name |-> name, category |-> category,
                       current_price |-> current_price, user_id |-> uid]}

\* INSERT INTO holdings: asset_id, account_id and user_id are foreign keys
InsertHolding(id, account_id, asset_id, shares, uid) ==
    IF \/ uid \notin UserIds
       \/ account_id \notin {a.id : a \in accounts}
       \/ asset_id \notin {a.id : a \in assets}
    THEN holdings
    ELSE holdings \cup {[id |-> id, asset_id |-> asset_id, account_id |-> account_id,
                         shares |-> shares, user_id |-> uid]}

\* the foreign key without ON DELETE CASCADE enforcement
CascadeAccount_none(account_id) == holdings

\* holdings.account_id REFERENCES accounts(id) ON DELETE CASCADE
CascadeAccount(account_id) == {h \in holdings : h.account_id # account_id}

\* holdings.asset_id REFERENCES assets(id) ON DELETE CASCADE
CascadeAsset(asset_id) == {h \in holdings : h.asset_id # asset_id}

\* the UPDATE without its WHERE id = %s
UpdateAssetRows_all(asset_id, current_price) ==
    {[a EXCEPT !.current_price = current_price] : a \in assets}

\* UPDATE assets SET current_price = %s WHERE id = %s
UpdateAssetRows(asset_id, current_price) ==
    {IF a.id = asset_id THEN [a EXCEPT !.current_price = current_price] ELSE a : a \in assets}

\* UPDATE holdings SET shares = %s WHERE id = %s
UpdateHoldingRows(holding_id, shares) ==
    {IF h.id = holding_id THEN [h EXCEPT !.shares = shares] ELSE h : h \in holdings}

-----------------------------------------------------------------------------
(* Methods of the gateway: the tables after the call and how the call ended. *)
(* A serial column takes its value before the constraints are checked, so a  *)
(* rejected INSERT still consumes the sequence value.                        *)

Db == [users |-> users, accounts |-> accounts, assets |-> assets,
       holdings |-> holdings, seqs |-> seqs]

Done(d, status, id, n) == [db |-> d, status |-> status, id |-> id, n |-> n, name |-> <<>>]

\* _database_connect(require_user=True) raises RuntimeError for user_id None,
\* before any statement runs
RaiseNoUser(id) == Done(Db, "RuntimeError", id, 0)

create_user(username, password, salt) ==
    LET id == seqs.users + 1
        after == InsertUser(id, username, generate_password_hash(password, salt))
    IN [Done([Db EXCEPT !.users = after, !.seqs.users = id],
             IF after = users THEN "IntegrityError" ELSE "ok", id, 0)
        EXCEPT !.name = username]

add_account(uid, account_name, account_type) ==
    IF uid = NoUser THEN RaiseNoUser(0)
    ELSE LET id == seqs.accounts + 1
             after == InsertAccount(id, account_name, account_type, uid)
         IN Done([Db EXCEPT !.accounts = after, !.seqs.accounts = id],
                 IF after = accounts THEN "IntegrityError" ELSE "ok", id, 0)

add_asset(uid, ticker, name, category, current_price) ==
    IF uid = NoUser THEN RaiseNoUser(0)
    ELSE LET id == seqs.assets + 1
             after == InsertAsset(id, ticker, name, category, current_price, uid)
         IN Done([Db EXCEPT !.assets = after, !.seqs.assets = id],
                 IF after = assets THEN "IntegrityError" ELSE "ok", id, 0)

add_holding(uid, account_id, asset_id, shares) ==
    IF uid = NoUser THEN RaiseNoUser(0)
    ELSE LET id == seqs.holdings + 1
             after == InsertHolding(id, account_id, asset_id, shares, uid)
         IN Done([Db EXCEPT !.holdings = after, !.seqs.holdings = id],
                 IF after = holdings THEN "IntegrityError" ELSE "ok", id, 0)

delete_holding(uid, holding_id) ==
    IF uid = NoUser THEN RaiseNoUser(holding_id)
    ELSE Done([Db EXCEPT !.holdings = {h \in holdings : h.id # holding_id}],
              "ok", holding_id, Cardinality({h \in holdings : h.id = holding_id}))

update_holding(uid, holding_id, shares) ==
    IF uid = NoUser THEN RaiseNoUser(holding_id)
    ELSE Done([Db EXCEPT !.holdings = UpdateHoldingRows(holding_id, shares)],
              "ok", holding_id, Cardinality({h \in holdings : h.id = holding_id}))

\* n counts the holdings removed by the cascade
delete_asset(uid, asset_id) ==
    IF uid = NoUser THEN RaiseNoUser(asset_id)
    ELSE Done([Db EXCEPT !.assets = {a \in assets : a.id # asset_id},
                         !.holdings = CascadeAsset(asset_id)],
              "ok", asset_id, Cardinality({h \in holdings : h.asset_id = asset_id}))

update_asset(uid, asset_id, current_price) ==
    IF uid = NoUser THEN RaiseNoUser(asset_id)
    ELSE Done([Db EXCEPT !.assets = UpdateAssetRows(asset_id, current_price)],
              "ok", asset_id, Cardinality({a \in assets : a.id = asset_id}))

\* n counts the holdings removed by the cascade
delete_account(uid, account_id) ==
    IF uid = NoUser THEN RaiseNoUser(account_id)
    ELSE Done([Db EXCEPT !.accounts = {a \in accounts : a.id # account_id},
                         !.holdings = CascadeAccount(account_id)],
              "ok", account_id, Cardinality({h \in holdings : h.account_id = account_id}))

-----------------------------------------------------------------------------
(* Calls of the gateway.  Each call is made on a gateway constructed for the *)
(* call: __init__ runs the schema setup once and sets _initialized.          *)

Called(op, uid, status, id, n, name) ==
    [op |-> op, uid |-> uid, status |-> status, id |-> id, n |-> n, name |-> name]

Apply(d) ==
    /\ users' = d.users
    /\ accounts' = d.accounts
    /\ assets' = d.assets
    /\ holdings' = d.holdings
    /\ seqs' = d.seqs

\* the sequences of the model are capped
InBounds(d) ==
    /\ d.seqs.users <= MaxUserSeq
    /\ d.seqs.accounts <= MaxAccountSeq
    /\ d.seqs.assets <= MaxAssetSeq
    /\ d.seqs.holdings <= MaxHoldingSeq

Call(op, uid, out) ==
    /\ InBounds(out.db)
    /\ initialized' = TRUE
    /\ Apply(out.db)
    /\ last' = Called(op, uid, out.status, out.id, out.n, out.name)
    /\ UNCHANGED <<session, resp, boot>>

CallCreateUser(username, password, salt) ==
    Call("create_user", NoUser, create_user(username, password, salt))

CallAddAccount(uid, account_name, account_type) ==
    Call("add_account", uid, add_account(uid, account_name, account_type))

CallAddAsset(uid, ticker, name, category, current_price) ==
    Call("add_asset", uid, add_asset(uid, ticker, name, category, current_price))

CallAddHolding(uid, account_id, asset_id, shares) ==
    Call("add_holding", uid, add_holding(uid, account_id, asset_id, shares))

CallDeleteHolding(uid, holding_id) ==
    Call("delete_holding", uid, delete_holding(uid, holding_id))

CallUpdateHolding(uid, holding_id, shares) ==
    Call("update_holding", uid, update_holding(uid, holding_id, shares))

CallDeleteAsset(uid, asset_id) ==
    Call("delete_asset", uid, delete_asset(uid, asset_id))

CallUpdateAsset(uid, asset_id, current_price) ==
    Call("update_asset", uid, update_asset(uid, asset_id, current_price))

CallDeleteAccount(uid, account_id) ==
    Call("delete_account", uid, delete_account(uid, account_id))

-----------------------------------------------------------------------------
(* _setup_schema, statement by statement.  Each worker process has its own     *)
(* DatabasePersistence._initialized; the setup of a process runs in one        *)
(* transaction (READ COMMITTED), committed when the with-block is left.        *)

Procs == {1, 2}

Schemas == {"users", "views"}
Relations == {"users.users", "accounts", "assets", "holdings", "views.base_holdings"}

\* the statements of _setup_schema in order: the COUNT(*) on
\* information_schema.tables (at 0 the CREATEs follow, otherwise control goes
\* to `skip`), CREATE SCHEMA IF NOT EXISTS, and CREATE TABLE / CREATE VIEW
SetupProgram ==
    << [op |-> "check",  obj |-> "users.users",         skip |-> 4],
       [op |-> "schema", obj |-> "users",               skip |-> 0],
       [op |-> "create", obj |-> "users.users",         skip |-> 0],
       [op |-> "check",  obj |-> "accounts",            skip |-> 6],
       [op |-> "create", obj |-> "accounts",            skip |-> 0],
       [op |-> "check",  obj |-> "assets",              skip |-> 8],
       [op |-> "create", obj |-> "assets",              skip |-> 0],
       [op |-> "check",  obj |-> "holdings",            skip |-> 10],
       [op |-> "create", obj |-> "holdings",            skip |-> 0],
       [op |-> "check",  obj |-> "views.base_holdings", skip |-> 13],
       [op |-> "schema", obj |-> "views",               skip |-> 0],
       [op |-> "create", obj |-> "views.base_holdings", skip |-> 0] >>

\* a process that has constructed no gateway
NewProc ==
    [state |-> "new", pc |-> 0, pending |-> {}, waiting |-> FALSE, flag |-> FALSE]

\* an empty database and processes whose _initialized is False; created counts
\* the committed creations of each object
NoSchema ==
    [created |-> [x \in Schemas \cup Relations |-> 0], proc |-> [p \in Procs |-> NewProc]]

\* what a statement of process p sees: what is committed, and what its own
\* transaction has created
Visible(p, x) == boot.created[x] > 0 \/ x \in boot.proc[p].pending

\* another transaction has created x and is still open
HeldByOther(p, x) == \E q \in Procs \ {p} : x \in boot.proc[q].pending

\* the statement raises: the transaction is rolled back and __init__ does not
\* reach `_initialized = True`
Raised(pr) == [pr EXCEPT !.state = "failed", !.pc = 0, !.pending = {}, !.waiting = FALSE]

\* one statement of the setup, for the process record pr of p.  A CREATE of a
\* name that an open transaction has created waits for that transaction.
Execute(p, pr, ins) ==
    IF ins.op = "check"
    THEN [pr EXCEPT !.pc = IF Visible(p, ins.obj) THEN ins.skip ELSE pr.pc + 1]
    ELSE IF Visible(p, ins.obj)
         THEN (IF ins.op = "schema" THEN [pr EXCEPT !.pc = pr.pc + 1] ELSE Raised(pr))
         ELSE IF HeldByOther(p, ins.obj)
              THEN [pr EXCEPT !.waiting = TRUE]
              ELSE [pr EXCEPT !.pending = pr.pending \cup {ins.obj}, !.pc = pr.pc + 1]

\* DatabasePersistence(...) in process p: the setup starts unless the process
\* is initialized
Construct(p) ==
    /\ boot.proc[p].state # "running"
    /\ boot' = [boot EXCEPT !.proc[p] =
                   IF boot.proc[p].flag
                   THEN [boot.proc[p] EXCEPT !.state = "constructed"]
                   ELSE [boot.proc[p] EXCEPT !.state = "running", !.pc = 1]]
    /\ UNCHANGED <<db, initialized, last, session, resp>>

\* the next statement of the setup of p
SetupStep(p) ==
    /\ boot.proc[p].state = "running"
    /\ ~boot.proc[p].waiting
    /\ boot.proc[p].pc \in DOMAIN SetupProgram
    /\ boot' = [boot EXCEPT !.proc[p] = Execute(p, boot.proc[p], SetupProgram[boot.proc[p].pc])]
    /\ UNCHANGED <<db, initialized, last, session, resp>>

\* the transaction p waited for has ended: the CREATE fails on the unique
\* index of the catalog if the name was committed, and goes on if it was not
SetupResume(p) ==
    /\ boot.proc[p].state = "running"
    /\ boot.proc[p].waiting
    /\ ~HeldByOther(p, SetupProgram[boot.proc[p].pc].obj)
    /\ boot' = [boot EXCEPT !.proc[p] =
                   IF boot.created[SetupProgram[boot.proc[p].pc].obj] > 0
                   THEN Raised(boot.proc[p])
                   ELSE [boot.proc[p] EXCEPT !.waiting = FALSE]]
    /\ UNCHANGED <<db, initialized, last, session, resp>>

\* the with-block is left: commit, then `DatabasePersistence._initialized = True`
SetupCommit(p) ==
    /\ boot.proc[p].state = "running"
    /\ boot.proc[p].pc = Len(SetupProgram) + 1
    /\ boot' = [boot EXCEPT
                   !.created = [x \in DOMAIN boot.created |->
                                   boot.created[x] + (IF x \in boot.proc[p].pending THEN 1 ELSE 0)],
                   !.proc[p] = [boot.proc[p] EXCEPT !.state = "ready", !.pc = 0,
                                                    !.pending = {}, !.flag = TRUE]]
    /\ UNCHANGED <<db, initialized, last, session, resp>>

-----------------------------------------------------------------------------
(* The gateway as its callers drive it *)

NoCall == Called("none", NoUser, "ok", 0, 0, <<>>)

NoRequest ==
    [route |-> "none", method |-> "GET", username |-> <<>>, password |-> <<>>,
     had_session |-> FALSE, known |-> FALSE, verified |-> FALSE,
     uid |-> NoUser, status |-> 0, calls |-> <<>>]

Init ==
    /\ users = {}
    /\ accounts = {}
    /\ assets = {}
    /\ holdings = {}
    /\ seqs = [users |-> 0, accounts |-> 0, assets |-> 0, holdings |-> 0]
    /\ initialized = FALSE
    /\ last = NoCall
    /\ session = {}
    /\ resp = NoRequest
    /\ boot = NoSchema

Next ==
    \/ \E u \in {UserAA, UserA1} : CallCreateUser(u, PwGood, "s1")
    \/ \E uid \in GatewayIds, n \in AccountNames, t \in AccountTypes : CallAddAccount(uid, n, t)
    \/ \E uid \in GatewayIds, t \in Tickers, p \in Prices : CallAddAsset(uid, t, t, t, p)
    \/ \E uid \in GatewayIds, ac \in 1 .. MaxAccountSeq, as \in 1 .. MaxAssetSeq, sh \in Shares :
           CallAddHolding(uid, ac, as, sh)
    \/ \E uid \in GatewayIds, id \in 1 .. MaxHoldingSeq : CallDeleteHolding(uid, id)
    \/ \E uid \in GatewayIds, id \in 1 .. MaxHoldingSeq, sh \in Shares : CallUpdateHolding(uid, id, sh)
    \/ \E uid \in GatewayIds, id \in 1 .. MaxAssetSeq : CallDeleteAsset(uid, id)
    \/ \E uid \in GatewayIds, id \in 1 .. MaxAssetSeq, p \in Prices : CallUpdateAsset(uid, id, p)
    \/ \E uid \in GatewayIds, id \in 1 .. MaxAccountSeq : CallDeleteAccount(uid, id)

Spec == Init /\ [][Next]_vars

\* the first constructions of the worker processes, on an empty database
NextBootstrap ==
    \/ \E p \in Procs : Construct(p)
    \/ \E p \in Procs : SetupStep(p)
    \/ \E p \in Procs : SetupResume(p)
    \/ \E p \in Procs : SetupCommit(p)

SpecBootstrap == Init /\ [][NextBootstrap]_vars

-----------------------------------------------------------------------------
(* Properties of the gateway, checked under Spec *)

AccountIds == 1 .. MaxAccountSeq
HoldingIds == 1 .. MaxHoldingSeq

\* the account row of a view row belongs to uid
OfAccountOf(r, uid) ==
    \E acc \in accounts : acc.id = r.account_id /\ acc.user_id = uid

\* C1: all_accounts(), all_assets(), all_holdings() and account_holdings(id) on a
\* gateway bound to user U return only rows whose user_id is U, rows of the table
\* (or, for the view, of an account) that U owns, whatever account id is passed.
C1_ReadsScopedToUser ==
    \A uid \in GatewayIds :
        /\ \A r \in all_accounts(uid) : r.user_id = uid /\ r \in accounts
        /\ \A r \in all_assets(uid) : r.user_id = uid /\ r \in assets
        /\ \A r \in all_holdings(uid) : r.user_id = uid /\ OfAccountOf(r, uid)
        /\ \A id \in AccountIds :
               \A r \in account_holdings(uid, id) : r.user_id = uid /\ OfAccountOf(r, uid)

\* two users both hold rows, each read of user 1 returns some, and user 1 asks for
\* the holdings of an account of user 2
C1_Witness ==
    /\ all_accounts(1) # {} /\ all_accounts(2) # {}
    /\ all_assets(1) # {}
    /\ all_holdings(1) # {} /\ all_holdings(2) # {}
    /\ \E id \in AccountIds :
           /\ \E acc \in accounts : acc.id = id /\ acc.user_id = 2
           /\ account_holdings(2, id) # {}
           /\ account_holdings(1, id) = {}

\* C8: delete_account and delete_asset cascade: every holding references an
\* existing account and an existing asset, and after delete_account(id) no
\* holding of that account is left in the table or in any user's all_holdings().
C8_CascadeKeepsReferences ==
    /\ \A h \in holdings :
           /\ \E a \in accounts : a.id = h.account_id
           /\ \E a \in assets : a.id = h.asset_id
    /\ (last.op = "delete_account" /\ last.status = "ok") =>
           /\ \A h \in holdings : h.account_id # last.id
           /\ \A uid \in GatewayIds : \A r \in all_holdings(uid) : r.account_id # last.id
    /\ (last.op = "delete_asset" /\ last.status = "ok") =>
           /\ \A h \in holdings : h.asset_id # last.id
           /\ \A uid \in GatewayIds : \A r \in all_holdings(uid) : r.asset_id # Val(last.id)

\* delete_account has just removed an account together with a holding of it,
\* while a holding of another account stays
C8_Witness ==
    /\ last.op = "delete_account"
    /\ last.status = "ok"
    /\ last.n > 0
    /\ holdings # {}

\* the rows with a holding that the three reads of the view return to uid
HoldingRows(uid) ==
    all_holdings(uid)
    \cup UNION {{r \in account_holdings(uid, id) : r.holding_id # NULL} : id \in AccountIds}
    \cup UNION {find_holding(uid, id) : id \in HoldingIds}

\* C9: every holding row returned by all_holdings(), account_holdings() or
\* find_holding() has market_value = current_price of the referenced asset times
\* the shares of the holding, as the tables hold them now.
C9_MarketValueIsPriceTimesShares ==
    \A uid \in GatewayIds :
        \A r \in HoldingRows(uid) :
            /\ r.asset_id # NULL
            /\ r.market_value # NULL
            /\ \E a \in assets, h \in holdings :
                   /\ a.id = r.asset_id[1]
                   /\ h.id = r.holding_id[1]
                   /\ h.asset_id = a.id
                   /\ r.market_value[1] = a.current_price * h.shares

\* update_asset has just repriced an asset of which a holding of 2 shares is
\* returned with market value 2
C9_Witness ==
    /\ last.op = "update_asset"
    /\ last.n = 1
    /\ \E uid \in GatewayIds : \E r \in all_holdings(uid) :
           r.asset_id = Val(last.id) /\ r.shares = Val(2) /\ r.market_value = Val(2)

RECURSIVE ValueOf(_)
\* the sum over a set of holdings of price times shares
ValueOf(H) ==
    IF H = {} THEN 0
    ELSE LET h == CHOOSE x \in H : TRUE
             a == CHOOSE x \in assets : x.id = h.asset_id
         IN a.current_price * h.shares + ValueOf(H \ {h})

HoldingsOf(account_id) == {h \in holdings : h.account_id = account_id}

\* account_totals(uid) has exactly one row for each account of uid, and no other
OneRowPerAccount(uid) ==
    /\ \A a \in all_accounts(uid) :
           Cardinality({t \in account_totals(uid) : t.account_id = a.id}) = 1
    /\ \A t \in account_totals(uid) :
           \E a \in all_accounts(uid) :
               /\ a.id = t.account_id
               /\ a.account_name = t.account_name
               /\ a.account_type = t.account_type

\* C10 as stated: one row per account of the user, number_holdings the number of
\* holdings of the account and total_market_value the sum of their market
\* values (0 for an account without holdings).
C10_TotalsAsStated ==
    \A uid \in GatewayIds :
        /\ OneRowPerAccount(uid)
        /\ \A t \in account_totals(uid) :
               /\ t.number_holdings = Cardinality(HoldingsOf(t.account_id))
               /\ t.total_market_value = Val(ValueOf(HoldingsOf(t.account_id)))

\* C10 amended: one row per account of the user, number_holdings the number of
\* holdings of the account; total_market_value is the sum of their market values
\* when the account has a holding, and NULL when it has none.
C10_TotalsPerAccount ==
    \A uid \in GatewayIds :
        /\ OneRowPerAccount(uid)
        /\ \A t \in account_totals(uid) :
               /\ t.number_holdings = Cardinality(HoldingsOf(t.account_id))
               /\ t.total_market_value =
                      IF HoldingsOf(t.account_id) = {} THEN NULL
                      ELSE Val(ValueOf(HoldingsOf(t.account_id)))

\* a user with two accounts: one with two holdings worth 3 together, one empty
C10_Witness ==
    \E uid \in GatewayIds : \E t1, t2 \in account_totals(uid) :
        /\ t1.number_holdings = 2
        /\ t1.total_market_value = Val(3)
        /\ t2.number_holdings = 0
        /\ t2.total_market_value = NULL

-----------------------------------------------------------------------------
(* app.py: validation *)

RECURSIVE AllAlnum(_)
AllAlnum(s) ==
    IF s = <<>> THEN TRUE ELSE Head(s) \in AlnumChars /\ AllAlnum(Tail(s))

\* str.isalnum(): at least one character and every character alphanumeric
isalnum(s) == Len(s) > 0 /\ AllAlnum(s)

RECURSIVE lstrip(_)
lstrip(s) == IF s # <<>> /\ Head(s) = " " THEN lstrip(Tail(s)) ELSE s

RECURSIVE rstrip(_)
rstrip(s) ==
    IF s # <<>> /\ s[Len(s)] = " " THEN rstrip(SubSeq(s, 1, Len(s) - 1)) ELSE s

\* str.strip()
strip(s) == rstrip(lstrip(s))

\* verify_username with len(username) >= 1 written for > 1
verify_username_short(username) ==
    LET length == Len(username) >= 1
        is_alphanum == isalnum(username)
        unique == ~PyIn(Str(username), [i \in DOMAIN all_users |-> Str(all_users[i])])
    IN length /\ is_alphanum /\ unique

\* verify_username(username), g.storage being a gateway
verify_username(username) ==
    LET length == Len(username) > 1
        is_alphanum == isalnum(username)
        unique == ~PyIn(Str(username), [i \in DOMAIN all_users |-> Str(all_users[i])])
    IN length /\ is_alphanum /\ unique

\* verify_password(password)
verify_password(password) ==
    LET length == Len(password) >= 8
        has_num == \E number \in Digits : \E i \in 1 .. Len(password) : password[i] = number
    IN length /\ has_num

-----------------------------------------------------------------------------
(* app.py: one request, from before_request to the response *)

\* DatabasePersistence.__init__(self, user_id) takes one argument
InitArity == 1

\* load_data calls DatabasePersistence() with none
LoadDataArgs == <<>>

\* @app.before_request load_data: g.storage, or the TypeError of the call
load_data ==
    IF Len(LoadDataArgs) # InitArity
    THEN [raised |-> TRUE, user_id |-> NoUser]
    ELSE [raised |-> FALSE, user_id |-> LoadDataArgs[1]]

Reply(d, sess, status, calls) ==
    [db |-> d, session |-> sess, status |-> status, calls |-> calls]

\* an exception ends the request with status 500; what was committed stays
ServerError(d, calls) == Reply(d, session, 500, calls)

\* a handler that only reads: the gateway raises RuntimeError without a user
Reads(ops) ==
    IF load_data.raised THEN ServerError(Db, <<"load_data">>)
    ELSE IF load_data.user_id = NoUser
         THEN ServerError(Db, <<"load_data", ops[1]>>)
         ELSE Reply(Db, session, 200, <<"load_data">> \o ops)

\* a handler that makes one mutating call and redirects
Mutates(op, out) ==
    Reply(out.db, session, IF out.status = "ok" THEN 302 ELSE 500, <<"load_data", op>>)

\* /create_user without before_request and without the password check
app_create_user_unchecked(method, username, password, salt) ==
    IF method = "POST"
    THEN IF ~verify_username(username)
         THEN Reply(Db, session, 200, <<"load_data", "all_users">>)
         ELSE Mutates("create_user", create_user(username, password, salt))
    ELSE Reply(Db, session, 200, <<"load_data">>)

\* /create_user
app_create_user(method, username, password, salt) ==
    IF load_data.raised THEN ServerError(Db, <<"load_data">>)
    ELSE IF method = "POST"
         THEN IF ~verify_username(username)
              THEN Reply(Db, session, 200, <<"load_data", "all_users">>)
              ELSE IF ~verify_password(password)
                   THEN Reply(Db, session, 200, <<"load_data", "all_users">>)
                   ELSE LET out == create_user(username, password, salt)
                        IN Reply(out.db, session, IF out.status = "ok" THEN 302 ELSE 500,
                                 <<"load_data", "all_users", "create_user">>)
         ELSE Reply(Db, session, 200, <<"load_data">>)

\* /signin without before_request, looking the username up in the table and
\* not checking the password
app_signin_unverified(method, username, password) ==
    IF session # {} THEN Reply(Db, session, 302, <<"load_data">>)
    ELSE IF method = "POST"
         THEN IF \E u \in users : u.username = username
              THEN Reply(Db, {username}, 302, <<"load_data", "load_user_credentials">>)
              ELSE Reply(Db, session, 422, <<"load_data", "load_user_credentials">>)
         ELSE Reply(Db, session, 200, <<"load_data">>)

\* /signin.  credentials is the tuple load_user_credentials returns:
\* `username in credentials` compares the str with the two dicts, and
\* credentials[username] indexes a tuple with a str (TypeError)
app_signin(method, username, password) ==
    IF load_data.raised THEN ServerError(Db, <<"load_data">>)
    ELSE IF session # {} THEN Reply(Db, session, 302, <<"load_data">>)
         ELSE IF method = "POST"
              THEN LET credentials == load_user_credentials
                   IN IF PyIn(Str(username), credentials)
                      THEN ServerError(Db, <<"load_data", "load_user_credentials">>)
                      ELSE Reply(Db, session, 422, <<"load_data", "load_user_credentials">>)
              ELSE Reply(Db, session, 200, <<"load_data">>)

\* /signout: session.pop('username', None)
app_signout ==
    IF load_data.raised THEN ServerError(Db, <<"load_data">>)
    ELSE Reply(Db, {}, 302, <<"load_data">>)

\* / and /accounts/new render a template
app_index ==
    IF load_data.raised THEN ServerError(Db, <<"load_data">>)
    ELSE Reply(Db, session, 200, <<"load_data">>)

\* GET /accounts
app_get_accounts == Reads(<<"account_totals">>)

\* GET /assets
app_get_assets == Reads(<<"asset_totals">>)

\* GET /holdings[?account_id=]: get_columns needs no user, all_accounts does
app_get_holdings(account_id) ==
    IF load_data.raised THEN ServerError(Db, <<"load_data">>)
    ELSE IF load_data.user_id = NoUser
         THEN ServerError(Db, <<"load_data", "get_columns", "all_accounts">>)
         ELSE Reply(Db, session, 200,
                    <<"load_data", "get_columns", "all_accounts",
                      IF account_id = NULL THEN "all_holdings" ELSE "account_holdings">>)

\* GET /assets/new
app_add_asset == Reads(<<"all_accounts">>)

\* GET /holdings/new
app_add_holding == Reads(<<"all_accounts", "all_assets">>)

\* POST /accounts
app_create_account(account_name, account_type) ==
    IF load_data.raised THEN ServerError(Db, <<"load_data">>)
    ELSE Mutates("add_account",
                 add_account(load_data.user_id, strip(account_name), account_type))

\* POST /assets
app_create_asset(asset_ticker, asset_name, asset_category, current_price) ==
    IF load_data.raised THEN ServerError(Db, <<"load_data">>)
    ELSE Mutates("add_asset",
                 add_asset(load_data.user_id, asset_ticker, strip(asset_name),
                           asset_category, current_price))

\* POST /holdings
app_create_holding(account_id, asset_id, shares) ==
    IF load_data.raised THEN ServerError(Db, <<"load_data">>)
    ELSE Mutates("add_holding", add_holding(load_data.user_id, account_id, asset_id, shares))

\* /assets/update
app_update_asset(method, asset_id, current_price) ==
    IF load_data.raised THEN ServerError(Db, <<"load_data">>)
    ELSE IF method = "POST"
         THEN Mutates("update_asset", update_asset(load_data.user_id, asset_id, current_price))
         ELSE Reads(<<"find_asset">>)

\* /holdings/update: update_holding, then update_asset, each in its own transaction
app_update_holding(method, holding_id, asset_id, shares, current_price) ==
    IF load_data.raised THEN ServerError(Db, <<"load_data">>)
    ELSE IF method = "POST"
         THEN LET first == update_holding(load_data.user_id, holding_id, shares)
                  second == update_asset(load_data.user_id, asset_id, current_price)
              IN IF first.status # "ok"
                 THEN ServerError(Db, <<"load_data", "update_holding">>)
                 ELSE Reply([Db EXCEPT !.holdings = first.db.holdings,
                                       !.assets = second.db.assets],
                            session, 302, <<"load_data", "update_holding", "update_asset">>)
         ELSE Reads(<<"find_holding">>)

\* POST /accounts/delete
app_delete_account(account_id) ==
    IF load_data.raised THEN ServerError(Db, <<"load_data">>)
    ELSE Mutates("delete_account", delete_account(load_data.user_id, account_id))

\* POST /assets/delete
app_delete_asset(asset_id) ==
    IF load_data.raised THEN ServerError(Db, <<"load_data">>)
    ELSE Mutates("delete_asset", delete_asset(load_data.user_id, asset_id))

\* POST /holdings/delete
app_delete_holding(holding_id) ==
    IF load_data.raised THEN ServerError(Db, <<"load_data">>)
    ELSE Mutates("delete_holding", delete_holding(load_data.user_id, holding_id))

\* the stored credentials verify username and password
Registered(username, password) ==
    \E u \in users : u.username = username /\ check_password_hash(u.password_hash, password)

\* one request served: the tables, the session and the response
Request(route, method, username, password, out) ==
    /\ InBounds(out.db)
    /\ Apply(out.db)
    /\ session' = out.session
    /\ initialized' = (initialized \/ ~load_data.raised)
    /\ resp' = [route |-> route, method |-> method,
                username |-> username, password |-> password,
                had_session |-> session # {},
                known |-> \E u \in users : u.username = username,
                verified |-> Registered(username, password),
                uid |-> load_data.user_id,
                status |-> out.status, calls |-> out.calls]
    /\ UNCHANGED <<last, boot>>

\* a function of app.py called by itself, g.storage being a gateway
Evaluate(op, name, result) ==
    /\ last' = Called(op, NoUser, IF result THEN "True" ELSE "False", 0, 0, name)
    /\ initialized' = TRUE
    /\ UNCHANGED <<db, session, resp, boot>>

-----------------------------------------------------------------------------
(* Registration and sign-in as clients drive them *)

Methods == {"GET", "POST"}
FormNames == {UserAA, UserA1, <<"a">>, <<"a", "!">>}
FormPasswords == {PwGood, PwOther, PwNoDigit, PwShort, PwSeven}
FormAccountNames == AccountNames \cup {<<" ", "a">>}

\* registration on the gateway, and the two validators
NextUsers ==
    \/ \E u \in {UserAA, UserA1}, p \in {PwGood, PwOther}, salt \in Salts :
           CallCreateUser(u, p, salt)
    \/ \E c \in Candidates : Evaluate("verify_username", c, verify_username(c))
    \/ \E p \in FormPasswords : Evaluate("verify_password", p, verify_password(p))

SpecUsers == Init /\ [][NextUsers]_vars

\* registration on the gateway, and the routes of app.py
NextAuth ==
    \/ \E u \in {UserAA, UserA1}, p \in {PwGood, PwOther}, salt \in Salts :
           CallCreateUser(u, p, salt)
    \/ \E m \in Methods, u \in FormNames, p \in FormPasswords, salt \in Salts :
           Request("create_user", m, u, p, app_create_user(m, u, p, salt))
    \/ \E m \in Methods, u \in FormNames, p \in FormPasswords :
           Request("signin", m, u, p, app_signin(m, u, p))
    \/ Request("signout", "POST", <<>>, <<>>, app_signout)
    \/ Request("index", "GET", <<>>, <<>>, app_index)
    \/ Request("get_accounts", "GET", <<>>, <<>>, app_get_accounts)
    \/ Request("get_assets", "GET", <<>>, <<>>, app_get_assets)
    \/ \E id \in {NULL} \cup {Val(i) : i \in 1 .. MaxAccountSeq} :
           Request("get_holdings", "GET", <<>>, <<>>, app_get_holdings(id))
    \/ Request("add_asset", "GET", <<>>, <<>>, app_add_asset)
    \/ Request("add_holding", "GET", <<>>, <<>>, app_add_holding)
    \/ \E n \in FormAccountNames, t \in AccountTypes :
           Request("create_account", "POST", <<>>, <<>>, app_create_account(n, t))
    \/ \E t \in Tickers, p \in Prices :
           Request("create_asset", "POST", <<>>, <<>>, app_create_asset(t, t, t, p))
    \/ \E ac \in 1 .. MaxAccountSeq, as \in 1 .. MaxAssetSeq, sh \in Shares :
           Request("create_holding", "POST", <<>>, <<>>, app_create_holding(ac, as, sh))
    \/ \E m \in Methods, id \in 1 .. MaxAssetSeq, p \in Prices :
           Request("update_asset", m, <<>>, <<>>, app_update_asset(m, id, p))
    \/ \E m \in Methods, h \in 1 .. MaxHoldingSeq, a \in 1 .. MaxAssetSeq,
          sh \in Shares, p \in Prices :
           Request("update_holding", m, <<>>, <<>>, app_update_holding(m, h, a, sh, p))
    \/ \E id \in 1 .. MaxAccountSeq :
           Request("delete_account", "POST", <<>>, <<>>, app_delete_account(id))
    \/ \E id \in 1 .. MaxAssetSeq :
           Request("delete_asset", "POST", <<>>, <<>>, app_delete_asset(id))
    \/ \E id \in 1 .. MaxHoldingSeq :
           Request("delete_holding", "POST", <<>>, <<>>, app_delete_holding(id))

SpecAuth == Init /\ [][NextAuth]_vars

-----------------------------------------------------------------------------
(* Properties of registration (under SpecUsers) and of the routes (under SpecAuth) *)

\* the number of times name occurs in the list all_users() returns
Occurrences(name, list) == Cardinality({i \in DOMAIN list : list[i] = name})

\* a step that is a direct call of create_user
IsCreateUserCall == last' # last /\ last'.op = "create_user"

\* a step that serves a request
IsRequest == last' = last /\ resp' # resp

\* C2: all_users() holds each registered username exactly once: create_user(u, p)
\* adds u when u is not registered, and fails when it is, leaving the users and
\* the stored hash of u as they were.
C2_UsernamesRegisteredOnce ==
    [][IsCreateUserCall =>
          IF Occurrences(last'.name, all_users) = 0
          THEN /\ last'.status = "ok"
               /\ Occurrences(last'.name, all_users') = 1
               /\ users \subseteq users'
               /\ Cardinality(users') = Cardinality(users) + 1
               /\ Len(all_users') = Cardinality(users')
          ELSE /\ last'.status = "IntegrityError"
               /\ Occurrences(last'.name, all_users) = 1
               /\ users' = users
               /\ all_users' = all_users]_vars

\* create_user has just failed on a username that is registered, with a password
\* other than the stored one
C2_Witness ==
    /\ last.op = "create_user"
    /\ last.status = "IntegrityError"
    /\ Occurrences(last.name, all_users) = 1
    /\ \E u \in users : u.username = last.name /\ ~check_password_hash(u.password_hash, PwOther)
    /\ \E u \in users : u.username = last.name /\ check_password_hash(u.password_hash, PwGood)

\* C3 as stated: a sign-in POST made while nobody is signed in, with a
\* registered username and the password it was registered with, leaves the
\* session holding that username.
C3_SigninSetsSession ==
    (/\ resp.route = "signin"
     /\ resp.method = "POST"
     /\ ~resp.had_session
     /\ resp.verified) => session = {resp.username}

ProtectedRoutes ==
    {"get_accounts", "get_assets", "get_holdings", "add_asset", "add_holding",
     "create_account", "create_asset", "create_holding", "update_asset",
     "update_holding", "delete_account", "delete_asset", "delete_holding"}

UserScopedCalls ==
    {"account_totals", "asset_totals", "all_accounts", "all_assets", "all_holdings",
     "account_holdings", "find_asset", "find_holding", "add_account", "add_asset",
     "add_holding", "update_asset", "update_holding", "delete_account", "delete_asset",
     "delete_holding"}

CallsOf(r) == {r.calls[i] : i \in DOMAIN r.calls}

\* C5 as stated: a request that reads or mutates accounts, assets or holdings
\* runs the session check (require_login) first; it calls a user-scoped gateway
\* operation only with a signed-in user, on a gateway bound to that user's id.
C5_SessionCheckFirst ==
    resp.route \in ProtectedRoutes =>
        /\ Len(resp.calls) >= 2
        /\ resp.calls[2] = "require_login"
        /\ (CallsOf(resp) \cap UserScopedCalls # {}) =>
               /\ resp.had_session
               /\ \E u \in users : u.username \in session /\ u.id = resp.uid

InvalidPassword(password) ==
    \/ Len(password) < 8
    \/ \A i \in 1 .. Len(password) : password[i] \notin Digits

-----------------------------------------------------------------------------
(* Properties of the percentages and of the totals per asset, under Spec *)

\* the market value of the holdings in the accounts of uid
PortfolioValue(uid) == SumField(all_holdings(uid), "market_value")

\* the numerators of the percent column of account_totals(uid), added up
\* (a NULL percent adds nothing)
PercentNumerators(uid) ==
    SumField({[account_id |-> t.account_id,
               v |-> IF t.percent = NULL THEN NULL ELSE Val(t.percent[1])]
              : t \in account_totals(uid)}, "v")

\* C11 as stated: whenever the portfolio of a user has a positive total market
\* value, the percent values of that user's account_totals() rows sum to 1,
\* also when other users have holdings.
C11_PercentSumsToOne ==
    \A uid \in GatewayIds :
        PortfolioValue(uid) > 0 =>
            \E t \in account_totals(uid) :
                /\ t.percent # NULL
                /\ PercentNumerators(uid) = t.percent[2]

RECURSIVE SharesOf(_)
\* the shares of a set of holdings, added up
SharesOf(H) ==
    IF H = {} THEN 0
    ELSE LET h == CHOOSE x \in H : TRUE IN h.shares + SharesOf(H \ {h})

HoldingsOfAsset(asset_id) == {h \in holdings : h.asset_id = asset_id}

\* C12 as stated: asset_totals() has exactly one row for each asset of the
\* current user, also for an asset without holdings; for an asset with holdings
\* total_shares is the sum of its shares across accounts and accounts_holding
\* the number of distinct accounts holding it.
C12_AssetTotalsAsStated ==
    \A uid \in GatewayIds :
        /\ \A a \in all_assets(uid) :
               Cardinality({t \in asset_totals(uid) : t.id = a.id}) = 1
        /\ \A t \in asset_totals(uid) : \E a \in all_assets(uid) : a.id = t.id
        /\ \A t \in asset_totals(uid) :
               HoldingsOfAsset(t.id) # {} =>
                   /\ t.total_shares = Val(SharesOf(HoldingsOfAsset(t.id)))
                   /\ t.accounts_holding =
                          Cardinality({h.account_id : h \in HoldingsOfAsset(t.id)})

\* the holdings in the accounts of uid
HoldingsOfUser(uid) ==
    {h \in holdings : \E acc \in all_accounts(uid) : acc.id = h.account_id}

\* C13: account_holdings(id) for an account of the current user without holdings
\* returns one row, of that account, whose ticker, shares, market_value and
\* holding_id are NULL; all_holdings() returns no row with NULL shares and
\* exactly one row for each holding in the current user's accounts.
C13_EmptyAccountRowAndHoldingRows ==
    \A uid \in GatewayIds :
        /\ \A acc \in all_accounts(uid) :
               HoldingsOf(acc.id) = {} =>
                   /\ Cardinality(account_holdings(uid, acc.id)) = 1
                   /\ \A r \in account_holdings(uid, acc.id) :
                          /\ r.account_id = acc.id
                          /\ r.account_name = acc.account_name
                          /\ r.account_type = acc.account_type
                          /\ r.ticker = NULL
                          /\ r.shares = NULL
                          /\ r.market_value = NULL
                          /\ r.holding_id = NULL
        /\ \A r \in all_holdings(uid) : r.shares # NULL
        /\ \A h \in HoldingsOfUser(uid) :
               Cardinality({r \in all_holdings(uid) : r.holding_id = Val(h.id)}) = 1
        /\ \A r \in all_holdings(uid) :
               \E h \in HoldingsOfUser(uid) : r.holding_id = Val(h.id) /\ r.shares = Val(h.shares)
        /\ Cardinality(all_holdings(uid)) = Cardinality(HoldingsOfUser(uid))

\* a user has an account with two holdings and an account with none, for which
\* account_holdings returns its row of NULLs
C13_Witness ==
    \E uid \in GatewayIds : \E acc \in all_accounts(uid) :
        /\ HoldingsOf(acc.id) = {}
        /\ \E r \in account_holdings(uid, acc.id) : r.shares = NULL /\ r.holding_id = NULL
        /\ Cardinality(all_holdings(uid)) = 2

-----------------------------------------------------------------------------
(* Accounts added and deleted, on gateways bound to a registered user or to none *)

RoundTripNames == {<<"a">>, <<" ", "a">>}
RoundTripTypes == {<<"a">>, <<"1">>}

BoundIds == UserIds \cup {NoUser}

NextAccounts ==
    \/ \E u \in {UserAA, UserA1} : CallCreateUser(u, PwGood, "s1")
    \/ \E uid \in BoundIds, n \in RoundTripNames, t \in RoundTripTypes :
           CallAddAccount(uid, n, t)
    \/ \E uid \in BoundIds, id \in 1 .. MaxAccountSeq : CallDeleteAccount(uid, id)

SpecAccounts == Init /\ [][NextAccounts]_vars

\* C14: add_account(name, type) on a gateway bound to user U succeeds and adds
\* to all_accounts() of U one row, with that account_name and account_type;
\* delete_account of a row's id on that gateway removes exactly that row from
\* all_accounts() of U, so that a list of that one row is empty again.
C14_AccountRoundTrip ==
    [][\A uid \in UserIds :
           /\ \A n \in RoundTripNames, t \in RoundTripTypes :
                  CallAddAccount(uid, n, t) =>
                      /\ last'.status = "ok"
                      /\ \E r \in all_accounts(uid)' :
                             /\ r.id = last'.id
                             /\ r.account_name = n
                             /\ r.account_type = t
                             /\ all_accounts(uid)' = all_accounts(uid) \cup {r}
                             /\ r \notin all_accounts(uid)
           /\ \A id \in 1 .. MaxAccountSeq :
                  CallDeleteAccount(uid, id) =>
                      /\ last'.status = "ok"
                      /\ \A r \in all_accounts(uid)' : r.id # id
                      /\ all_accounts(uid)' = {r \in all_accounts(uid) : r.id # id}
                      /\ (\A r \in all_accounts(uid) : r.id = id) => all_accounts(uid)' = {}]_vars

\* the one account ever added has just been deleted by the gateway of its
\* user, whose all_accounts() is empty again
C14_Witness ==
    /\ last.op = "delete_account"
    /\ last.status = "ok"
    /\ last.uid \in UserIds
    /\ last.id = 1
    /\ seqs.accounts = 1
    /\ all_accounts(last.uid) = {}

-----------------------------------------------------------------------------
(* Updates by primary key, on tables of up to MaxUpdateSeq assets and holdings *)

MaxUpdateSeq == 2

UpdateCaps == [users |-> 1, accounts |-> 1, assets |-> MaxUpdateSeq, holdings |-> MaxUpdateSeq]

\* one call on a gateway constructed for it, the sequences capped by caps
CallWithin(caps, op, uid, out) ==
    /\ \A s \in DOMAIN caps : out.db.seqs[s] <= caps[s]
    /\ initialized' = TRUE
    /\ Apply(out.db)
    /\ last' = Called(op, uid, out.status, out.id, out.n, out.name)
    /\ UNCHANGED <<session, resp, boot>>

UpdaterIds == {NoUser, 1}
UpdateIds == 1 .. MaxUpdateSeq

DoUpdateAsset(uid, asset_id, current_price) ==
    CallWithin(UpdateCaps, "update_asset", uid, update_asset(uid, asset_id, current_price))

DoUpdateHolding(uid, holding_id, shares) ==
    CallWithin(UpdateCaps, "update_holding", uid, update_holding(uid, holding_id, shares))

NextUpdates ==
    \/ CallWithin(UpdateCaps, "create_user", NoUser, create_user(UserA1, PwGood, "s1"))
    \/ \E uid \in UpdaterIds, n \in AccountNames, t \in AccountTypes :
           CallWithin(UpdateCaps, "add_account", uid, add_account(uid, n, t))
    \/ \E uid \in UpdaterIds, t \in Tickers, p \in Prices :
           CallWithin(UpdateCaps, "add_asset", uid, add_asset(uid, t, t, t, p))
    \/ \E uid \in UpdaterIds, as \in UpdateIds, sh \in Shares :
           CallWithin(UpdateCaps, "add_holding", uid, add_holding(uid, 1, as, sh))
    \/ \E uid \in UpdaterIds, id \in UpdateIds, p \in Prices : DoUpdateAsset(uid, id, p)
    \/ \E uid \in UpdaterIds, id \in UpdateIds, sh \in Shares : DoUpdateHolding(uid, id, sh)

SpecUpdates == Init /\ [][NextUpdates]_vars

\* row b is row a with, at most, the column col changed
SameBut(a, b, col) == \A f \in DOMAIN a \ {col} : b[f] = a[f]

\* C15: update_asset(id, price) changes only the current_price of the asset
\* with that id and update_holding(id, shares) only the shares of the holding
\* with that id: the other columns of the row, the other rows and the sets of
\* users, accounts, assets and holdings stay; with an id that matches no row
\* nothing changes.
C15_UpdatesChangeOneColumn ==
    [][/\ \A uid \in UpdaterIds, id \in UpdateIds, p \in Prices :
              DoUpdateAsset(uid, id, p) =>
                  /\ UNCHANGED <<users, accounts, holdings, seqs>>
                  /\ Cardinality(assets') = Cardinality(assets)
                  /\ \A a \in assets : a.id # id => a \in assets'
                  /\ \A a \in assets :
                         a.id = id => \E b \in assets' :
                             /\ SameBut(a, b, "current_price")
                             /\ last'.status = "ok" => b.current_price = p
                  /\ (\A a \in assets : a.id # id) => assets' = assets
       /\ \A uid \in UpdaterIds, id \in UpdateIds, sh \in Shares :
              DoUpdateHolding(uid, id, sh) =>
                  /\ UNCHANGED <<users, accounts, assets, seqs>>
                  /\ Cardinality(holdings') = Cardinality(holdings)
                  /\ \A h \in holdings : h.id # id => h \in holdings'
                  /\ \A h \in holdings :
                         h.id = id => \E g \in holdings' :
                             /\ SameBut(h, g, "shares")
                             /\ last'.status = "ok" => g.shares = sh
                  /\ (\A h \in holdings : h.id # id) => holdings' = holdings]_vars

\* update_asset has just written the price of one of two assets, whose prices
\* now differ, while two holdings with different shares exist
C15_Witness ==
    /\ last.op = "update_asset"
    /\ last.status = "ok"
    /\ last.n = 1
    /\ \E a, b \in assets :
           a.id = last.id /\ b.id # last.id /\ a.current_price = 1 /\ b.current_price = 0
    /\ \E g, h \in holdings : g.shares # h.shares

-----------------------------------------------------------------------------
(* Property of the schema setup, under SpecBootstrap *)

\* C16 as stated: when two processes that are not initialized construct a
\* gateway at the same time on an empty database, neither setup raises, no
\* table or view is created twice, and once both are initialized each of
\* users.users, accounts, assets, holdings and views.base_holdings has been
\* created exactly once; an initialized process has nothing left to create.
C16_BootstrapSafe ==
    /\ \A p \in Procs : boot.proc[p].state # "failed"
    /\ \A x \in Relations : boot.created[x] <= 1
    /\ (\A p \in Procs : boot.proc[p].flag) => \A x \in Relations : boot.created[x] = 1
    /\ \A p \in Procs : boot.proc[p].flag => boot.proc[p].pending = {}

-----------------------------------------------------------------------------
(* Properties of the tenants, under Spec *)

\* the operations a gateway bound to a user performs on rows
TenantOps ==
    {"add_account", "add_asset", "add_holding", "update_holding", "update_asset",
     "delete_account", "delete_asset", "delete_holding"}

\* what the five listing reads return on a gateway bound to uid
ListingsOf(uid) ==
    <<all_accounts(uid), all_assets(uid), all_holdings(uid),
      account_totals(uid), asset_totals(uid)>>

\* C17 as stated: no operation performed on a gateway bound to a user A changes
\* what all_accounts(), all_assets(), all_holdings(), account_totals() or
\* asset_totals() return on a gateway bound to another user B.
C17_TenantsDoNotInterfere ==
    [][(last'.op \in TenantOps /\ last'.uid \in UserIds) =>
          \A B \in UserIds \ {last'.uid} : ListingsOf(B)' = ListingsOf(B)]_vars

\* C18 as stated: each row of accounts, assets and holdings carries the
\* user_id of the gateway that inserted it, and the user_id of every holding is
\* that of the account and of the asset it references.
C18_HoldingsShareTheirOwner ==
    /\ (last.op \in {"add_account", "add_asset", "add_holding"} /\ last.status = "ok") =>
           \A r \in (IF last.op = "add_account" THEN accounts
                     ELSE IF last.op = "add_asset" THEN assets ELSE holdings) :
               r.id = last.id => r.user_id = last.uid
    /\ \A h \in holdings :
           /\ \A a \in accounts : a.id = h.account_id => a.user_id = h.user_id
           /\ \A a \in assets : a.id = h.asset_id => a.user_id = h.user_id

====
